---- MODULE Spec2Model ----
(***************************************************************************)
(* Aether (src/aether.py): a one-line-at-a-time expression language.       *)
(* Pipeline: lex -> Parser.parse_statement -> Interpreter.visit, driven by *)
(* the read loop run_aether.                                               *)
(*                                                                         *)
(* Text is a sequence of one-character strings.  Python floats are         *)
(* modelled by exact rationals [kind, num, den]; Python's None is the      *)
(* value PyNone.  A raised exception is a string naming its class and      *)
(* message; NoExc means "nothing raised".                                  *)
(***************************************************************************)
EXTENDS Integers, Sequences, FiniteSets

---------------------------------------------------------------------------
(* Values *)

NoExc == ""
SyntaxError_Illegal == "SyntaxError: Illegal character"
SyntaxError_Expected == "SyntaxError: Expected"
NameError_Undefined == "NameError: Undefined variable"
NameError_Declared == "NameError: already declared"
AttributeError == "AttributeError: 'NoneType' object has no attribute 'type'"
TypeError == "TypeError: unsupported operand type(s)"
ZeroDivisionError == "ZeroDivisionError: float division by zero"
EOFError == "EOFError: EOF when reading a line"

PyNone == [kind |-> "None", num |-> 0, den |-> 1]

Abs(n) == IF n < 0 THEN -n ELSE n

RECURSIVE Gcd(_, _)
Gcd(a, b) == IF b = 0 THEN a ELSE Gcd(b, a % b)

\* A float, kept as the rational n/d in lowest terms with d > 0.
Float(n, d) ==
    LET g == Gcd(Abs(n), Abs(d))
        s == IF d < 0 THEN -1 ELSE 1
    IN  [kind |-> "float", num |-> (s * n) \div g, den |-> (s * d) \div g]

IsFloat(v) == v.kind = "float"

\* The value of a one-element set.  A sub-result that is used more than once is
\* bound as the element of a singleton, which evaluates it exactly once.
The(S) == CHOOSE v \in S : TRUE

---------------------------------------------------------------------------
(* LEXER *)

Digits == {"0", "1", "2", "3", "4", "5", "6", "7", "8", "9"}
LowerCase == <<"a", "b", "c", "d", "e", "f", "g", "h", "i", "j", "k", "l", "m",
               "n", "o", "p", "q", "r", "s", "t", "u", "v", "w", "x", "y", "z">>
UpperCase == <<"A", "B", "C", "D", "E", "F", "G", "H", "I", "J", "K", "L", "M",
               "N", "O", "P", "Q", "R", "S", "T", "U", "V", "W", "X", "Y", "Z">>
IdentStart == {LowerCase[i] : i \in DOMAIN LowerCase}
                 \cup {UpperCase[i] : i \in DOMAIN UpperCase} \cup {"_"}
IdentPart == IdentStart \cup Digits
Blank == {" ", "\t"}

Token(type, value) == [type |-> type, value |-> value]

\* The first index >= i of code whose character is not in class (Len+1 if none).
RECURSIVE RunEnd(_, _, _)
RunEnd(code, i, class) ==
    IF i <= Len(code) /\ code[i] \in class THEN RunEnd(code, i + 1, class) ELSE i

\* r'\d+(\.\d+)?' matched at i (code[i] is a digit): the index after the match.
NumberEnd(code, i) ==
    LET j == RunEnd(code, i, Digits)
    IN  IF j + 1 <= Len(code) /\ code[j] = "." /\ code[j + 1] \in Digits
        THEN RunEnd(code, j + 1, Digits)
        ELSE j

\* r'"[^"]*"' matched at i (code[i] is a quote): the index after the match,
\* or 0 when no closing quote follows.
StringEnd(code, i) ==
    LET j == RunEnd(code, i + 1, {code[k] : k \in 1..Len(code)} \ {"\""})
    IN  IF j <= Len(code) THEN j + 1 ELSE 0

SingleChar(c) ==
    CASE c = "=" -> "EQUALS"
      [] c = "+" -> "PLUS"
      [] c = "-" -> "MINUS"
      [] c = "*" -> "MUL"
      [] c = "/" -> "DIV"
      [] c = "(" -> "LPAREN"
      [] c = ")" -> "RPAREN"
      [] c = "\n" -> "NEWLINE"
      [] OTHER -> "ERROR"

\* One match of the alternation at index i: its kind and the index after it.
Match(code, i) ==
    LET c == code[i]
    IN  CASE c \in Digits -> [kind |-> "NUMBER", end |-> NumberEnd(code, i)]
          [] c = "\"" /\ StringEnd(code, i) # 0 ->
                 [kind |-> "STRING", end |-> StringEnd(code, i)]
          [] c = ":" /\ i + 1 <= Len(code) /\ code[i + 1] = "=" ->
                 [kind |-> "ASSIGN", end |-> i + 2]
          [] c \in IdentStart ->
                 [kind |-> "IDENT", end |-> RunEnd(code, i, IdentPart)]
          [] c \in Blank -> [kind |-> "SKIP", end |-> RunEnd(code, i, Blank)]
          [] OTHER -> [kind |-> SingleChar(c), end |-> i + 1]

RECURSIVE LexFrom(_, _, _)
LexFrom(code, i, tokens) ==
    IF i > Len(code) THEN [tokens |-> tokens, exc |-> NoExc]
    ELSE The({CASE m.kind = "SKIP" -> LexFrom(code, m.end, tokens)
                [] m.kind = "ERROR" -> [tokens |-> <<>>, exc |-> SyntaxError_Illegal]
                [] OTHER -> LexFrom(code, m.end,
                                Append(tokens, Token(m.kind, SubSeq(code, i, m.end - 1)))) :
              m \in {Match(code, i)}})

lex(code) == LexFrom(code, 1, <<>>)

---------------------------------------------------------------------------
(* PARSER *)

NoneNode == [type |-> "None"]
NoToken == [type |-> "None", value |-> <<>>]

DigitSeq == <<"0", "1", "2", "3", "4", "5", "6", "7", "8", "9">>
DigitVal(c) == (CHOOSE i \in DOMAIN DigitSeq : DigitSeq[i] = c) - 1

RECURSIVE DigitsToNat(_, _)
DigitsToNat(ds, acc) ==
    IF ds = <<>> THEN acc ELSE DigitsToNat(Tail(ds), 10 * acc + DigitVal(Head(ds)))

RECURSIVE Pow10(_)
Pow10(k) == IF k = 0 THEN 1 ELSE 10 * Pow10(k - 1)

\* float(value) for a NUMBER lexeme: digits, optionally '.' and digits.
float(value) ==
    LET dot == RunEnd(value, 1, Digits)
    IN  IF dot > Len(value) THEN Float(DigitsToNat(value, 0), 1)
        ELSE LET frac == SubSeq(value, dot + 1, Len(value))
             IN  Float(DigitsToNat(SubSeq(value, 1, dot - 1), 0) * Pow10(Len(frac))
                           + DigitsToNat(frac, 0),
                       Pow10(Len(frac)))

BinOp(left, op, right) == [type |-> "BinOp", left |-> left, op |-> op, right |-> right]
Num(value) == [type |-> "Num", value |-> float(value)]
Var(name) == [type |-> "Var", name |-> name]
Assign(name, value, is_decl) ==
    [type |-> "Assign", name |-> name, value |-> value, is_decl |-> is_decl]

\* Parser.consume: pos is the 0-based index of the current token; expected_type
\* is "" for the default None.  Returns the token (NoToken for None), the new pos
\* and the exception raised, if any.
consume(tokens, pos, expected_type) ==
    IF pos < Len(tokens)
    THEN LET token == tokens[pos + 1]
         IN  IF expected_type # "" /\ token.type # expected_type
             THEN [token |-> NoToken, pos |-> pos, exc |-> SyntaxError_Expected]
             ELSE [token |-> token, pos |-> pos + 1, exc |-> NoExc]
    ELSE [token |-> NoToken, pos |-> pos, exc |-> NoExc]

peek(tokens, pos) == IF pos < Len(tokens) THEN tokens[pos + 1] ELSE NoToken

Parsed(node, pos) == [node |-> node, pos |-> pos, exc |-> NoExc]
Raised(pos, exc) == [node |-> NoneNode, pos |-> pos, exc |-> exc]

RECURSIVE parse_expression(_, _), expression_loop(_, _, _), parse_term(_, _),
          term_loop(_, _, _), parse_factor(_, _)

\* expression_loop with the right operand parsed as a whole expression, which
\* makes '+' and '-' associate to the right.
expression_loop_RightAssoc(tokens, pos, node) ==
    IF peek(tokens, pos).type \in {"PLUS", "MINUS"}
    THEN LET op == consume(tokens, pos, "")
         IN  The({IF rhs.exc # NoExc THEN rhs
                  ELSE Parsed(BinOp(node, op.token.type, rhs.node), rhs.pos) :
                  rhs \in {parse_expression(tokens, op.pos)}})
    ELSE Parsed(node, pos)

\* The while loop of parse_expression, entered with node already parsed.
expression_loop(tokens, pos, node) ==
    IF peek(tokens, pos).type \in {"PLUS", "MINUS"}
    THEN LET op == consume(tokens, pos, "")
         IN  The({IF rhs.exc # NoExc THEN rhs
                  ELSE expression_loop(tokens, rhs.pos,
                                       BinOp(node, op.token.type, rhs.node)) :
                  rhs \in {parse_term(tokens, op.pos)}})
    ELSE Parsed(node, pos)

parse_expression(tokens, pos) ==
    The({IF first.exc # NoExc THEN first
         ELSE expression_loop(tokens, first.pos, first.node) :
         first \in {parse_term(tokens, pos)}})

\* The while loop of parse_term, entered with node already parsed.
term_loop(tokens, pos, node) ==
    IF peek(tokens, pos).type \in {"MUL", "DIV"}
    THEN LET op == consume(tokens, pos, "")
         IN  The({IF rhs.exc # NoExc THEN rhs
                  ELSE term_loop(tokens, rhs.pos, BinOp(node, op.token.type, rhs.node)) :
                  rhs \in {parse_factor(tokens, op.pos)}})
    ELSE Parsed(node, pos)

parse_term(tokens, pos) ==
    The({IF first.exc # NoExc THEN first
         ELSE term_loop(tokens, first.pos, first.node) :
         first \in {parse_factor(tokens, pos)}})

parse_factor(tokens, pos) ==
    LET c == consume(tokens, pos, "")
        token == c.token
    IN  CASE token = NoToken -> Raised(c.pos, AttributeError)
          [] token.type = "NUMBER" -> Parsed(Num(token.value), c.pos)
          [] token.type = "IDENT" -> Parsed(Var(token.value), c.pos)
          [] token.type = "LPAREN" ->
                 The({IF inner.exc # NoExc THEN inner
                      ELSE LET close == consume(tokens, inner.pos, "RPAREN")
                           IN  IF close.exc # NoExc THEN Raised(close.pos, close.exc)
                               ELSE Parsed(inner.node, close.pos) :
                      inner \in {parse_expression(tokens, c.pos)}})
          [] OTHER -> Parsed(NoneNode, c.pos)

\* The body of the two assignment branches: consume the operator, parse the value.
parse_assignment(tokens, pos, name, is_decl) ==
    The({IF value.exc # NoExc THEN value
         ELSE Parsed(Assign(name, value.node, is_decl), value.pos) :
         value \in {parse_expression(tokens, consume(tokens, pos, "").pos)}})

parse_statement(tokens) ==
    LET token == peek(tokens, 0)
    IN  IF token = NoToken THEN Raised(0, AttributeError)
        ELSE IF token.type = "IDENT"
        THEN LET name == consume(tokens, 0, "")
                 next_t == peek(tokens, name.pos)
             IN  CASE next_t.type = "ASSIGN" ->
                          parse_assignment(tokens, name.pos, name.token.value, TRUE)
                   [] next_t.type = "EQUALS" ->
                          parse_assignment(tokens, name.pos, name.token.value, FALSE)
                   [] OTHER -> parse_expression(tokens, name.pos)
        ELSE parse_expression(tokens, 0)

---------------------------------------------------------------------------
(* INTERPRETER *)

EmptyDict == [n \in {} |-> PyNone]

SetItem(globals, name, val) ==
    [n \in DOMAIN globals \cup {name} |-> IF n = name THEN val ELSE globals[n]]

Returned(val, globals) == [val |-> val, globals |-> globals, exc |-> NoExc]
Threw(globals, exc) == [val |-> PyNone, globals |-> globals, exc |-> exc]

\* The four arithmetic branches of a BinOp on already evaluated operands.
BinOpApply(op, left, right, globals) ==
    IF op \notin {"PLUS", "MINUS", "MUL", "DIV"} THEN Returned(PyNone, globals)
    ELSE IF ~IsFloat(left) \/ ~IsFloat(right) THEN Threw(globals, TypeError)
    ELSE CASE op = "PLUS" ->
                  Returned(Float(left.num * right.den + right.num * left.den,
                                 left.den * right.den), globals)
           [] op = "MINUS" ->
                  Returned(Float(left.num * right.den - right.num * left.den,
                                 left.den * right.den), globals)
           [] op = "MUL" ->
                  Returned(Float(left.num * right.num, left.den * right.den), globals)
           [] op = "DIV" ->
                  IF right.num = 0 THEN Threw(globals, ZeroDivisionError)
                  ELSE Returned(Float(left.num * right.den, left.den * right.num),
                                globals)

\* AssignApply with the already-declared check on reassignments instead of
\* declarations.
AssignApply_CheckReassign(node, val, globals) ==
    IF ~node.is_decl /\ node.name \in DOMAIN globals
    THEN Threw(globals, NameError_Declared)
    ELSE Returned(val, SetItem(globals, node.name, val))

\* AssignApply with the binding made before the already-declared check.
AssignApply_BindFirst(node, val, globals) ==
    IF node.is_decl /\ node.name \in DOMAIN globals
    THEN Threw(SetItem(globals, node.name, val), NameError_Declared)
    ELSE Returned(val, SetItem(globals, node.name, val))

\* AssignApply without the already-declared check.
AssignApply_NoCheck(node, val, globals) ==
    Returned(val, SetItem(globals, node.name, val))

\* The Assign branch once node.value has been evaluated to val.
AssignApply(node, val, globals) ==
    IF node.is_decl /\ node.name \in DOMAIN globals
    THEN Threw(globals, NameError_Declared)
    ELSE Returned(val, SetItem(globals, node.name, val))

RECURSIVE visit(_, _)
visit(node, globals) ==
    CASE node.type = "Num" -> Returned(node.value, globals)
      [] node.type = "Var" ->
             IF node.name \notin DOMAIN globals THEN Threw(globals, NameError_Undefined)
             ELSE Returned(globals[node.name], globals)
      [] node.type = "BinOp" ->
             The({IF left.exc # NoExc THEN left
                  ELSE The({IF right.exc # NoExc THEN right
                            ELSE BinOpApply(node.op, left.val, right.val, right.globals) :
                            right \in {visit(node.right, left.globals)}}) :
                  left \in {visit(node.left, globals)}})
      [] node.type = "Assign" ->
             The({IF value.exc # NoExc THEN value
                  ELSE AssignApply(node, value.val, value.globals) :
                  value \in {visit(node.value, globals)}})
      [] OTHER -> Returned(PyNone, globals)

---------------------------------------------------------------------------
(* MAIN INTERFACE: run_aether *)

VARIABLES
    pc,        \* position in run_aether's loop
    stdin,     \* number of lines still to be read from standard input
    text,      \* the line read by input()
    tokens,    \* lex(text)
    ast,       \* parser.parse_statement()
    result,    \* interpreter.visit(ast)
    exc,       \* the exception caught by 'except Exception', NoExc if none
    globals    \* interpreter.globals

vars == <<pc, stdin, text, tokens, ast, result, exc, globals>>

\* Bounds of the model.
MaxInputs == 3
MaxDigit == 3

\* str.lower() on one character.
LowerChar(c) ==
    IF \E i \in DOMAIN UpperCase : UpperCase[i] = c
    THEN LowerCase[CHOOSE i \in DOMAIN UpperCase : UpperCase[i] = c]
    ELSE c

lower(s) == [i \in DOMAIN s |-> LowerChar(s[i])]

\* 'not text or text.lower() == "exit"'
IsSentinel(line) == line = <<>> \/ lower(line) = <<"e", "x", "i", "t">>

\* The lines standard input may hold.
Alphabet == {"x", "1", "+", "(", ")", ":", "=", "@", " "}
Names == {<<"x">>, <<"y">>}
Literals == {<<"1">>, <<"2">>}
JunkLines ==
    {<<a>> : a \in Alphabet} \cup {<<a, b>> : a, b \in Alphabet}
        \cup {<<a, b, c>> : a, b, c \in Alphabet}
StmtExprs ==
    Literals \cup Names
        \cup {n \o <<"+">> \o l : n \in Names, l \in Literals}
        \cup {<<"(">> \o l \o <<"+">> \o m : l, m \in Literals}
        \cup {l \o <<"@">> : l \in Literals}
        \cup {<<"1", "/", "0">>, <<"*">>}
StmtLines ==
    {n \o a \o e : n \in Names, a \in {<<":", "=">>, <<"=">>}, e \in StmtExprs}
ExprLines ==
    {<<"y">>, <<"y", "+", "1">>, <<"1", "+", "*">>, <<"\"", "a", "\"">>,
     <<"e", "x", "i", "t", "s">>}
        \cup {<<"(">> \o l \o s \o m : l, m \in Literals, s \in {<<"+">>, <<" ">>}}
        \cup {<<"(">> \o l \o <<"+">> \o m \o <<")">> : l, m \in Literals}
SentinelLines ==
    {<<>>, <<"e", "x", "i", "t">>, <<"E", "X", "I", "T">>, <<"E", "x", "i", "T">>}
Lines == JunkLines \cup StmtLines \cup ExprLines \cup SentinelLines

TypeOK ==
    /\ pc \in {"input", "lex", "parse", "visit", "print", "except", "done"}
    /\ stdin \in 0..MaxInputs

Init ==
    /\ pc = "input"
    /\ stdin \in 0..MaxInputs
    /\ text = <<>>
    /\ tokens = <<>>
    /\ ast = NoneNode
    /\ result = PyNone
    /\ exc = NoExc
    /\ globals = EmptyDict

\* text = input("ae> "); if not text or text.lower() == 'exit': break
\* input() raises EOFError once standard input is exhausted.
Input ==
    /\ pc = "input"
    /\ IF stdin = 0
       THEN /\ exc' = EOFError
            /\ pc' = "except"
            /\ UNCHANGED <<stdin, text>>
       ELSE \E line \in Lines :
               /\ stdin' = stdin - 1
               /\ text' = line
               /\ pc' = IF IsSentinel(line) THEN "done" ELSE "lex"
               /\ exc' = NoExc
    /\ UNCHANGED <<tokens, ast, result, globals>>

\* tokens = lex(text)
Lex ==
    /\ pc = "lex"
    /\ \E r \in {lex(text)} :
           /\ tokens' = r.tokens
           /\ exc' = r.exc
           /\ pc' = IF r.exc = NoExc THEN "parse" ELSE "except"
    /\ UNCHANGED <<stdin, text, ast, result, globals>>

\* parser = Parser(tokens); ast = parser.parse_statement()
Parse ==
    /\ pc = "parse"
    /\ \E r \in {parse_statement(tokens)} :
           /\ ast' = r.node
           /\ exc' = r.exc
           /\ pc' = IF r.exc = NoExc THEN "visit" ELSE "except"
    /\ UNCHANGED <<stdin, text, tokens, result, globals>>

\* result = interpreter.visit(ast).  The dictionary is mutated in place, so what
\* visit did to it before raising stays done.
Visit ==
    /\ pc = "visit"
    /\ \E r \in {visit(ast, globals)} :
           /\ result' = r.val
           /\ exc' = r.exc
           /\ globals' = r.globals
           /\ pc' = IF r.exc = NoExc THEN "print" ELSE "except"
    /\ UNCHANGED <<stdin, text, tokens, ast>>

\* The locals of one iteration are dead once it ends.
EndIteration ==
    /\ pc' = "input"
    /\ text' = <<>>
    /\ tokens' = <<>>
    /\ ast' = NoneNode
    /\ result' = PyNone
    /\ exc' = NoExc
    /\ UNCHANGED <<stdin, globals>>

\* print(result), then the next iteration of 'while True'
PrintResult ==
    /\ pc = "print"
    /\ EndIteration

\* except Exception as e: print(f"Error: {e}"), then the next iteration
Except ==
    /\ pc = "except"
    /\ EndIteration

Next == Input \/ Lex \/ Parse \/ Visit \/ PrintResult \/ Except

Spec == Init /\ [][Next]_vars

---------------------------------------------------------------------------
(* The pipeline applied to one variable-free arithmetic line *)

ArithDigits == {<<DigitSeq[d + 1]>> : d \in 0..MaxDigit}
ArithOps == {<<"+">>, <<"-">>, <<"*">>, <<"/">>}
ArithLines ==
    ArithDigits
        \cup {<<"(">> \o a \o <<")">> : a \in ArithDigits}
        \cup {a \o b : a, b \in ArithDigits}
        \cup {a \o <<".">> \o b : a, b \in ArithDigits}
        \cup {a \o o \o b : a, b \in ArithDigits, o \in ArithOps}
        \cup {a \o <<" ">> \o o \o <<" ">> \o b : a, b \in ArithDigits, o \in ArithOps}
        \cup {<<"(">> \o a \o o \o b : a, b \in ArithDigits, o \in ArithOps}
        \cup {a \o o \o b \o q \o c :
                 a, b, c \in ArithDigits, o, q \in ArithOps}
        \cup {<<"(">> \o a \o o \o b \o <<")">> \o q \o c :
                 a, b, c \in ArithDigits, o, q \in ArithOps}
        \cup {a \o o \o <<"(">> \o b \o q \o c \o <<")">> :
                 a, b, c \in ArithDigits, o, q \in ArithOps}

InitArith ==
    /\ pc = "lex"
    /\ stdin = 0
    /\ text \in ArithLines
    /\ tokens = <<>>
    /\ ast = NoneNode
    /\ result = PyNone
    /\ exc = NoExc
    /\ globals = EmptyDict

NextArith == Lex \/ Parse \/ Visit \/ PrintResult \/ Except

SpecArith == InitArith /\ [][NextArith]_vars

---------------------------------------------------------------------------
(* A reference evaluator for variable-free arithmetic, working on the text.  *)
(* It splits at the last operator outside parentheses, '+' and '-' before    *)
(* '*' and '/', so the lower level binds looser and each level associates    *)
(* to the left.  A value is an unreduced fraction; ok is FALSE when the text *)
(* is not a valid expression or divides by zero.                             *)

Invalid == [ok |-> FALSE, num |-> 0, den |-> 1]
Valid(n, d) == [ok |-> TRUE, num |-> n, den |-> d]

Trim(s) ==
    LET keep == {i \in DOMAIN s : s[i] \notin Blank}
    IN  IF keep = {} THEN <<>>
        ELSE SubSeq(s, CHOOSE i \in keep : \A j \in keep : i <= j,
                       CHOOSE i \in keep : \A j \in keep : j <= i)

\* How many parentheses are open just before index k.
Depth(s, k) ==
    Cardinality({i \in 1..(k - 1) : s[i] = "("})
        - Cardinality({i \in 1..(k - 1) : s[i] = ")"})

TopLevel(s, ops) == {k \in DOMAIN s : s[k] \in ops /\ Depth(s, k) = 0}

Last(S) == CHOOSE k \in S : \A j \in S : j <= k

IsDigits(s) == s # <<>> /\ \A i \in DOMAIN s : s[i] \in Digits

RefDigits(s) ==
    LET n[i \in 0..Len(s)] == IF i = 0 THEN 0 ELSE 10 * n[i - 1] + DigitVal(s[i])
    IN  n[Len(s)]

RefNumber(s) ==
    LET dots == {i \in DOMAIN s : s[i] = "."}
    IN  IF IsDigits(s) THEN Valid(RefDigits(s), 1)
        ELSE IF Cardinality(dots) = 1
        THEN LET d == Last(dots)
                 whole == SubSeq(s, 1, d - 1)
                 frac == SubSeq(s, d + 1, Len(s))
             IN  IF IsDigits(whole) /\ IsDigits(frac)
                 THEN Valid(RefDigits(whole \o frac), Pow10(Len(frac)))
                 ELSE Invalid
        ELSE Invalid

RefApply(op, l, r) ==
    IF ~l.ok \/ ~r.ok THEN Invalid
    ELSE CASE op = "+" -> Valid(l.num * r.den + r.num * l.den, l.den * r.den)
           [] op = "-" -> Valid(l.num * r.den - r.num * l.den, l.den * r.den)
           [] op = "*" -> Valid(l.num * r.num, l.den * r.den)
           [] op = "/" -> IF r.num = 0 THEN Invalid
                          ELSE Valid(l.num * r.den, l.den * r.num)

RECURSIVE RefEval(_)
RefSplit(t, k) ==
    The({The({RefApply(t[k], l, r) : r \in {RefEval(SubSeq(t, k + 1, Len(t)))}}) :
         l \in {RefEval(SubSeq(t, 1, k - 1))}})

RefEval(s) ==
    The({CASE TopLevel(t, {"+", "-"}) # {} -> RefSplit(t, Last(TopLevel(t, {"+", "-"})))
           [] TopLevel(t, {"*", "/"}) # {} -> RefSplit(t, Last(TopLevel(t, {"*", "/"})))
           [] Len(t) >= 2 /\ t[1] = "(" /\ t[Len(t)] = ")" ->
                  RefEval(SubSeq(t, 2, Len(t) - 1))
           [] OTHER -> RefNumber(t) :
         t \in {Trim(s)}})

LineDone == pc \in {"print", "except"}

\* C7: for a valid variable-free arithmetic line, the pipeline prints the value
\* the reference evaluator gives: '*' and '/' bind tighter than '+' and '-', each
\* level associates to the left, and parentheses override both.
C7_ArithmeticMatchesReference ==
    (LineDone /\ RefEval(text).ok) =>
        \E ref \in {RefEval(text)} :
            /\ pc = "print"
            /\ IsFloat(result)
            /\ result.num * ref.den = ref.num * result.den

C7_Witness ==
    /\ pc = "print"
    /\ text = <<"(", "1", "+", "2", ")", "*", "3">>
    /\ RefEval(text) = Valid(9, 1)
    /\ result = Float(9, 1)

---------------------------------------------------------------------------
(* Properties of the read loop.  At pc = "print" or "except" one line has    *)
(* been processed: text, tokens and ast are that line's, result or exc its   *)
(* outcome, globals the environment it left.                                 *)

TokenTypes == [i \in DOMAIN tokens |-> tokens[i].type]

\* The line is a single identifier.
BareName == Len(tokens) = 1 /\ tokens[1].type = "IDENT"

\* C1: a line that is just a name bound to a number prints the value last bound
\* to it (the identifier is parsed once, as a variable reference).
C1_BareNameReturnsBinding ==
    (/\ LineDone
     /\ BareName
     /\ tokens[1].value \in DOMAIN globals
     /\ IsFloat(globals[tokens[1].value]))
        => (pc = "print" /\ result = globals[tokens[1].value])

\* C2: a declaration whose value evaluates and whose name is already bound raises
\* the already-declared NameError and leaves the environment as it was; with the
\* name absent it binds the name to the value and returns the value.
C2_DeclarationOfBoundNameFails ==
    [][(/\ pc = "visit"
        /\ ast.type = "Assign"
        /\ ast.is_decl
        /\ visit(ast.value, globals).exc = NoExc)
       => IF ast.name \in DOMAIN globals
          THEN pc' = "except" /\ exc' = NameError_Declared /\ globals' = globals
          ELSE /\ pc' = "print"
               /\ result' = visit(ast.value, globals).val
               /\ globals' = SetItem(globals, ast.name, result')]_vars

C2_Witness ==
    /\ pc = "except"
    /\ exc = NameError_Declared
    /\ text = <<"x", ":", "=", "2">>
    /\ globals = SetItem(EmptyDict, <<"x">>, Float(1, 1))

\* C3: a line that is just a name absent from the environment raises the
\* undefined-variable NameError.
C3_UndeclaredNameRaisesUndefined ==
    (LineDone /\ BareName /\ tokens[1].value \notin DOMAIN globals) =>
        (pc = "except" /\ exc = NameError_Undefined)

\* C4: '(' NUMBER operator NUMBER with the tokens exhausted where ')' is required
\* is a parse error: the line gives no result.
C4_MissingCloseParenIsParseError ==
    (LineDone /\ TokenTypes \in {<<"LPAREN", "NUMBER", op, "NUMBER">> :
                                    op \in {"PLUS", "MINUS", "MUL", "DIV"}}) =>
        (pc = "except" /\ exc = SyntaxError_Expected)

\* C5: a line that fails, at whatever stage, leaves the environment as it was:
\* globals changes only in a visit step that raises nothing.
C5_FailedLineKeepsEnvironment ==
    [][(pc' = "except" \/ pc # "visit") => globals' = globals]_vars

C5_Witness ==
    /\ pc = "except"
    /\ exc = SyntaxError_Illegal
    /\ text = <<"x", ":", "=", "1", "@">>
    /\ <<"x">> \notin DOMAIN globals
    /\ <<"y">> \in DOMAIN globals

\* C6 as stated: a name enters the environment only by a Declaration.
C6_NamesEnterByDeclarationOnly ==
    [][\A n \in DOMAIN globals' \ DOMAIN globals :
           ast.type = "Assign" /\ ast.is_decl /\ ast.name = n]_vars

\* C6 amended: the environment changes only by an Assign node binding its own
\* name (no name is removed, no other name changes), and a Declaration binds only
\* a name that is absent: a bound name is never rebound by a Declaration.
C6_DeclarationNeverRebinds ==
    [][globals' # globals =>
           /\ pc = "visit"
           /\ ast.type = "Assign"
           /\ globals' = SetItem(globals, ast.name, result')
           /\ (ast.is_decl => ast.name \notin DOMAIN globals)]_vars

C6_Witness ==
    /\ pc = "print"
    /\ text = <<"x", "=", "x", "+", "1">>
    /\ ast.type = "Assign" /\ ~ast.is_decl
    /\ globals = SetItem(EmptyDict, <<"x">>, Float(2, 1))

\* C8: a line whose first token is not NUMBER, IDENT or LPAREN, where the parser
\* needs a factor, makes parsing fail: the parser hands no tree (and no None) to
\* the evaluator and the line gives no result.  The class of the exception is
\* left open.
C8_NoFactorIsParseError ==
    (tokens # <<>> /\ tokens[1].type \notin {"NUMBER", "IDENT", "LPAREN"}) =>
        pc \notin {"visit", "print"}

\* C9: every value stored in the environment is a number.
C9_EnvironmentValuesAreNumbers ==
    \A n \in DOMAIN globals : IsFloat(globals[n])

\* C10: once standard input is exhausted the read loop stops: from the prompt
\* with nothing left to read, the loop's next position is its end.
C10_EndOfInputStopsLoop ==
    [][(pc = "input" /\ stdin = 0) => pc' = "done"]_vars

====
